---- MODULE Spec2Model ----
(***************************************************************************)
(* Github1sFS (extensions/github1s/src/githubfs.ts): a read-only, lazily   *)
(* populated file system over the GitHub tree/blob API.  The model keeps   *)
(* the node tree (Directory.entries, File.data), the promises created by   *)
(* the memoized readDirectory / readFile, the callers of stat /            *)
(* readDirectory / readFile and the outcome of every remote fetch.         *)
(***************************************************************************)
EXTENDS Integers, Sequences, FiniteSets, TLC

VARIABLES
    entries,    \* Directory.entries of the node at each path: [null, map]
    data,       \* File.data of the node at each path: [null, bytes]
    rdProm,     \* promises created by readDirectory's body, per uri
    rdCache,    \* lruCache of readDirectory: uri -> index of the cached promise, 0 = absent
    rfProm,     \* promises created by readFile's body, per uri
    rfCache,    \* lruCache of readFile
    treeLog,    \* per uri: outcome of every tree fetch issued, in order
    blobLog,    \* per uri: outcome of every blob fetch issued, in order
    task,       \* the callers of the provider
    fails,      \* number of failing responses injected so far
    codecIn,    \* blob bytes handed to the codec round trip
    codecOut,   \* [done, bytes]: what readFile's decoding makes of them
    rev         \* revision of the remote content the API serves (1 or 2)

vars == <<entries, data, rdProm, rdCache, rfProm, rfCache, treeLog, blobLog,
          task, fails, codecIn, codecOut, rev>>

\* ------------------------------------------------------------------ bounds
NTasks == 2
MaxFail == 1
MaxBlobLen == 3

\* ------------------------------------------------- blob transport encoding
\* A base64 text is a sequence of sextets 0..63, with Pad for '='.
Pad == 64

RECURSIVE btoa(_)
\* The store's encoding of raw bytes (what the blob API puts in `content`).
btoa(bs) ==
    IF Len(bs) = 0 THEN <<>>
    ELSE IF Len(bs) = 1 THEN
        <<(bs[1] \div 4), (bs[1] % 4) * 16, Pad, Pad>>
    ELSE IF Len(bs) = 2 THEN
        <<(bs[1] \div 4), ((bs[1] % 4) * 16) + (bs[2] \div 16), (bs[2] % 16) * 4, Pad>>
    ELSE <<(bs[1] \div 4), ((bs[1] % 4) * 16) + (bs[2] \div 16),
           ((bs[2] % 16) * 4) + (bs[3] \div 64), (bs[3] % 64)>>
         \o btoa(SubSeq(bs, 4, Len(bs)))

RECURSIVE atob(_)
\* atob: base64 text -> binary string, one char code 0..255 per byte.
atob(s) ==
    IF Len(s) < 4 THEN <<>>
    ELSE LET b1 == (s[1] * 4) + (s[2] \div 16)
             b2 == ((s[2] % 16) * 16) + (s[3] \div 4)
             b3 == ((s[3] % 4) * 64) + s[4]
         IN IF s[3] = Pad THEN <<b1>>
            ELSE IF s[4] = Pad THEN <<b1, b2>>
            ELSE <<b1, b2, b3>> \o atob(SubSeq(s, 5, Len(s)))

RECURSIVE encode(_)
\* TextEncoder.encode: the UTF-8 bytes of a string of char codes 0..255.
encode(str) ==
    IF Len(str) = 0 THEN <<>>
    ELSE (IF str[1] < 128 THEN <<str[1]>>
          ELSE <<192 + (str[1] \div 64), 128 + (str[1] % 64)>>)
         \o encode(Tail(str))

\* file.data = encoder.encode(atob(blob.content))
decodeBlob(content) == encode(atob(content))

\* ------------------------------------------------------ the remote store
\* Paths are the segment lists uri.path.split('/').filter(Boolean) yields.
Paths == {<<>>, <<"f">>, <<"a">>, <<"a", "g">>, <<"m">>, <<"f", "x">>}

\* The uris the callers pass: any path to stat; two directories, a file and
\* a missing name to readDirectory; two files, a directory and a missing
\* name to readFile.
StatPaths == Paths
ReadDirectoryPaths == {<<>>, <<"a">>, <<"f">>, <<"m">>}
ReadFilePaths == {<<"f">>, <<"a", "g">>, <<"a">>, <<"m">>}

RemoteDirs == {<<>>, <<"a">>}

\* GET .../git/trees/<branch>:<path> -> data.tree
RemoteTree(d) ==
    IF d = <<>> THEN
        << [path |-> "f", type |-> "blob", sha |-> "h1", size |-> 2],
           [path |-> "a", type |-> "tree", sha |-> "h2", size |-> 0] >>
    ELSE IF d = <<"a">> THEN
        << [path |-> "g", type |-> "blob", sha |-> "h3", size |-> 1] >>
    ELSE <<>>

\* The listings after the branch has moved on: "f" has new content, "m" has
\* been added and "g" has new content.
RemoteTree2(d) ==
    IF d = <<>> THEN
        << [path |-> "f", type |-> "blob", sha |-> "h4", size |-> 2],
           [path |-> "a", type |-> "tree", sha |-> "h5", size |-> 0],
           [path |-> "m", type |-> "blob", sha |-> "h6", size |-> 1] >>
    ELSE IF d = <<"a">> THEN
        << [path |-> "g", type |-> "blob", sha |-> "h7", size |-> 1] >>
    ELSE <<>>

\* What GET .../git/trees/<branch>:<path> answers at revision r.
RemoteTreeAt(r, d) == IF r = 1 THEN RemoteTree(d) ELSE RemoteTree2(d)

\* The raw bytes of each blob object.
BlobBytes(sha) ==
    IF sha = "h1" THEN <<104, 105>>
    ELSE IF sha = "h3" THEN <<233>>
    ELSE <<>>

\* GET .../git/blobs/<sha> -> blob.content
RemoteBlob(sha) == btoa(BlobBytes(sha))

\* ------------------------------------------------------------ node model
NullEntries == [null |-> TRUE, map |-> <<>>]
NullData == [null |-> TRUE, bytes |-> <<>>]

File(uri, name, options) ==
    [type |-> "File", uri |-> uri, name |-> name,
     sha |-> options.sha, size |-> options.size]

Directory(uri, name, options) ==
    [type |-> "Directory", uri |-> uri, name |-> name,
     sha |-> options.sha, size |-> 0]

root == Directory(<<>>, "", [sha |-> ""])

\* Uri.joinPath(uri, name).path
joinPath(uri, name) == IF name = "" THEN uri ELSE Append(uri, name)

NodePath(n) == joinPath(n.uri, n.name)

\* Map.get / Map.set on an insertion-ordered Map keyed by name.
MapIndex(m, k) ==
    IF \E j \in 1..Len(m) : m[j].name = k
    THEN CHOOSE j \in 1..Len(m) : m[j].name = k
    ELSE 0

MapSet(m, n) ==
    IF MapIndex(m, n.name) # 0 THEN [m EXCEPT ![MapIndex(m, n.name)] = n]
    ELSE Append(m, n)

\* ---------------------------------------------------------------- _lookup
\* The state of one run of _lookup: `i` parts of `path` are consumed and
\* `entry` is the node reached.  st is "run", "await" (about to await
\* readDirectory), "wait" (suspended on promise gen of rdProm[key]) or "done";
\* pend is the promise of key that was pending when the await was made (0:
\* none).
NewLookup(uri) ==
    [path |-> uri, i |-> 0, entry |-> root, st |-> "run",
     key |-> <<>>, gen |-> 0, pend |-> 0, res |-> "none"]

\* In the operators below `CHOOSE x \in {e : v \in {a}} : TRUE` is e with v
\* standing for the value of a: it evaluates a once, whatever the number of
\* times e uses it.
RECURSIVE lookupLoop(_)
RECURSIVE lookupChild(_)
RECURSIVE lookupAwait(_, _)
RECURSIVE awaitReadDirectory(_, _)
RECURSIVE lruReadDirectory(_, _)
RECURSIVE readDirectoryBody(_, _)

\* if (!child) { throw FileSystemError.FileNotFound(uri) }   (silent = false)
lookupMiss_silent(l) == [l EXCEPT !.st = "done", !.res = "ok"]
lookupMiss(l) == [l EXCEPT !.st = "done", !.res = "FileNotFound"]

\* child = entry.entries.get(part); if (!child) ...; entry = child
lookupChild(l0) ==
    CHOOSE r \in {
        LET m == entries[NodePath(l.entry)].map
            idx == IF l.entry.type = "Directory" THEN MapIndex(m, l.path[l.i + 1]) ELSE 0
        IN IF idx = 0 THEN lookupMiss(l)
           ELSE lookupLoop([l EXCEPT !.i = @ + 1, !.entry = m[idx]]) : l \in {l0}} : TRUE

\* for (const part of parts) { ... }, up to the next await or the return
lookupLoop(l0) ==
    CHOOSE r \in {
        IF l.i = Len(l.path) THEN [l EXCEPT !.st = "done", !.res = "ok"]
        ELSE IF l.entry.type = "Directory" /\ entries[NodePath(l.entry)].null
             THEN [l EXCEPT !.st = "await"]
        ELSE lookupChild(l) : l \in {l0}} : TRUE

\* The continuation of `await this.readDirectory(...)`: entry.entries.get(part)
\* with no second null check; a rejected await rejects the lookup.
lookupResume(l, awaited) ==
    LET l1 == [l EXCEPT !.st = "run", !.key = <<>>, !.gen = 0, !.pend = 0]
    IN IF awaited.st = "fail" THEN [l1 EXCEPT !.st = "done", !.res = awaited.err]
       ELSE IF entries[NodePath(l.entry)].null
            THEN [l1 EXCEPT !.st = "done", !.res = "TypeError"]
       ELSE lookupChild(l1)

\* _lookupAsDirectory / _lookupAsFile: the error thrown, or "ok"
lookupAsDirectory(l) ==
    IF l.res # "ok" THEN l.res
    ELSE IF l.entry.type = "Directory" THEN "ok" ELSE "FileNotADirectory"

lookupAsFile_unchecked(l) == l.res
lookupAsFile(l) ==
    IF l.res # "ok" THEN l.res
    ELSE IF l.entry.type = "File" THEN "ok" ELSE "FileIsADirectory"

\* --------------------------------------------------------------- lruCache
\* The memoizing wrapper (./util).  An entry is absent (0) or names the
\* promise the wrapped function returned; an entry whose promise was
\* rejected is settled as failed and the next request runs the function
\* afresh.
lruHit(prom, cache, key) ==
    cache[key] # 0 /\ prom[key][cache[key]].st # "fail"

\* The latest promise for key that is still pending, 0 if there is none.
pendingPromise(prom, key) ==
    LET P == {g \in 1..Len(prom[key]) : prom[key][g].st \in {"lookup", "fetch"}}
    IN IF P = {} THEN 0 ELSE CHOOSE g \in P : \A h \in P : h <= g

\* ---------------------------------------------------------- readDirectory
\* S = [prom, cache, log, ret]: rdProm, rdCache and treeLog as the running
\* step has changed them, and the promise the last call returned.
\* src records how the body answered: "fetch" (it issued the remote fetch),
\* "model" (from parent.entries / file.data) or "none" (not that far yet).
NewPromise(l) == [st |-> "lookup", l |-> l, err |-> "", val |-> <<>>, src |-> "none"]

\* Array.from(parent.entries.values()).map(item => [item.name, FileType])
listEntries(m) == [j \in 1..Len(m) |-> <<m[j].name, m[j].type>>]

\* item.type === 'tree' ? FileType.Directory : FileType.File
fileType(item) == IF item.type = "tree" THEN "Directory" ELSE "File"

\* data.tree.map(item => [item.path, fileType])
listTree(tree) == [j \in 1..Len(tree) |-> <<tree[j].path, fileType(tree[j])>>]

\* new File(uri, item.path) / new Directory(uri, item.path): the options
\* argument is left out, so sha keeps its default ''.
newEntry_noSha(uri, item) ==
    IF fileType(item) = "Directory"
    THEN Directory(uri, item.path, [sha |-> ""])
    ELSE File(uri, item.path, [sha |-> "", size |-> 0])
newEntry(uri, item) ==
    IF fileType(item) = "Directory"
    THEN Directory(uri, item.path, [sha |-> item.sha])
    ELSE File(uri, item.path, [sha |-> item.sha, size |-> item.size])

RECURSIVE setEntries(_, _, _)
\* parent.entries.set(item.path, new Directory(...) | new File(...)), per item
setEntries(m, uri, tree) ==
    IF Len(tree) = 0 THEN m
    ELSE setEntries(MapSet(m, newEntry(uri, Head(tree))), uri, Tail(tree))

\* The callback without the `parent.entries !== null` branch: a body that
\* runs always issues the tree fetch.
readDirectoryThen_alwaysFetch(S, uri, g, l) ==
    IF lookupAsDirectory(l) # "ok" THEN
        [S EXCEPT !.prom[uri][g].st = "fail", !.prom[uri][g].err = lookupAsDirectory(l)]
    ELSE [S EXCEPT !.prom[uri][g].st = "fetch", !.prom[uri][g].src = "fetch",
                   !.log[uri] = Append(@, "pending")]
\* The .then(parent => ...) callback of readDirectory, run when the lookup
\* is done: reject, answer from parent.entries, or issue the tree fetch.
readDirectoryThen(S, uri, g, l) ==
    IF lookupAsDirectory(l) # "ok" THEN
        [S EXCEPT !.prom[uri][g].st = "fail", !.prom[uri][g].err = lookupAsDirectory(l)]
    ELSE IF ~entries[NodePath(l.entry)].null THEN
        [S EXCEPT !.prom[uri][g].st = "ok", !.prom[uri][g].src = "model",
                  !.prom[uri][g].val = listEntries(entries[NodePath(l.entry)].map)]
    ELSE [S EXCEPT !.prom[uri][g].st = "fetch", !.prom[uri][g].src = "fetch",
                   !.log[uri] = Append(@, "pending")]

\* The unwrapped function of readDirectory, up to its first suspension.
readDirectoryBody(S0, uri) ==
    CHOOSE x \in {
        LET g == Len(S.prom[uri]) + 1
            S1 == [S EXCEPT !.prom[uri] = Append(@, NewPromise(NewLookup(uri)))]
        IN CHOOSE y \in {
            LET S2 == [r.S EXCEPT !.prom[uri][g].l = r.l]
                S3 == IF r.l.st = "done" THEN readDirectoryThen(S2, uri, g, r.l) ELSE S2
            IN [S3 EXCEPT !.ret = g] : r \in {lookupAwait(S1, lookupLoop(NewLookup(uri)))}} : TRUE
        : S \in {S0}} : TRUE

\* readDirectory = lruCache(uri => ...)
lruReadDirectory_unwrapped(S, uri) == readDirectoryBody(S, uri)
lruReadDirectory(S0, uri) ==
    CHOOSE x \in {
        IF lruHit(S.prom, S.cache, uri) THEN [S EXCEPT !.ret = S.cache[uri]]
        ELSE CHOOSE y \in {[S1 EXCEPT !.cache[uri] = S1.ret] : S1 \in {readDirectoryBody(S, uri)}} : TRUE
        : S \in {S0}} : TRUE

\* await this.readDirectory(Uri.joinPath(entry.uri, entry.name))
awaitReadDirectory_unmemoized(S, uri) == readDirectoryBody(S, uri)
\* The await is made on a promise of the directory that is registered in
\* the cache before its body has run and then waits for the cached promise,
\* that is for itself.
awaitReadDirectory_selfWait(S, uri) ==
    LET g == Len(S.prom[uri]) + 1
        l == [NewLookup(uri) EXCEPT !.st = "wait", !.key = uri, !.gen = g]
    IN [S EXCEPT !.prom[uri] = Append(@, NewPromise(l)),
                 !.cache[uri] = g, !.ret = g]
awaitReadDirectory(S, uri) == lruReadDirectory(S, uri)

\* A lookup that stopped at an await makes the call and suspends on the
\* promise it gets.
lookupAwait(S0, l0) ==
    CHOOSE x \in {
        IF l.st # "await" THEN [S |-> S, l |-> l]
        ELSE CHOOSE y \in {
             [S |-> S1,
              l |-> [l EXCEPT !.st = "wait", !.key = NodePath(l.entry), !.gen = S1.ret,
                              !.pend = pendingPromise(S.prom, NodePath(l.entry))]]
             : S1 \in {awaitReadDirectory(S, NodePath(l.entry))}} : TRUE
        : S \in {S0}, l \in {l0}} : TRUE

\* ---------------------------------------------------------------- readFile
\* The .then(file => ...) callback of readFile: the promise as it leaves
\* the callback; st = "fetch" when the blob fetch was issued.
readFileThen(p, l) ==
    IF lookupAsFile(l) # "ok" THEN [p EXCEPT !.st = "fail", !.err = lookupAsFile(l)]
    ELSE IF ~data[NodePath(l.entry)].null
         THEN [p EXCEPT !.st = "ok", !.src = "model",
                        !.val = data[NodePath(l.entry)].bytes]
    ELSE [p EXCEPT !.st = "fetch", !.src = "fetch"]

\* -------------------------------------------------------- write operations
\* M = [entries, data]: the tree model.  Each operation is
\* `return Promise.resolve()`.
createDirectory_mkdir(M, uri) ==
    [M EXCEPT !.entries[uri] = [null |-> FALSE, map |-> <<>>]]
createDirectory(M, uri) == M
writeFile(M, uri) == M
delete(M, uri) == M
rename(M, uri) == M
copy(M, uri) == M

WriteOps == {"createDirectory", "writeFile", "delete", "rename", "copy"}

applyWrite(op, M, uri) ==
    CASE op = "createDirectory" -> createDirectory(M, uri)
      [] op = "writeFile" -> writeFile(M, uri)
      [] op = "delete" -> delete(M, uri)
      [] op = "rename" -> rename(M, uri)
      [] op = "copy" -> copy(M, uri)

\* ------------------------------------------------------------------ state
NoResult == [err |-> "", val |-> <<>>]

ByteSamples == {0, 65, 127, 128, 255}

ByteSeqs == UNION {[1..n -> ByteSamples] : n \in 0..MaxBlobLen}

InitFS ==
    /\ entries = [p \in Paths |-> NullEntries]
    /\ data = [p \in Paths |-> NullData]
    /\ rdProm = [p \in Paths |-> <<>>]
    /\ rdCache = [p \in Paths |-> 0]
    /\ rfProm = [p \in Paths |-> <<>>]
    /\ rfCache = [p \in Paths |-> 0]
    /\ treeLog = [p \in Paths |-> <<>>]
    /\ blobLog = [p \in Paths |-> <<>>]
    /\ task = {}
    /\ fails = 0
    /\ codecOut = [done |-> FALSE, bytes |-> <<>>]
    /\ rev = 1

Init == InitFS /\ codecIn = <<>>

fsVars == <<entries, data, rdProm, rdCache, rfProm, rfCache, treeLog, blobLog,
            task, fails>>
envVars == <<codecIn, codecOut, rev>>

RdState == [prom |-> rdProm, cache |-> rdCache, log |-> treeLog, ret |-> 0]

SetRd(S) ==
    /\ rdProm' = S.prom
    /\ rdCache' = S.cache
    /\ treeLog' = S.log

Settled(p) == p.st \in {"ok", "fail"}

\* At most NTasks calls are made (equal calls made in equal states are one).
CanStart == Cardinality(task) < NTasks

LookupResult(l) ==
    [err |-> IF l.res = "ok" THEN "" ELSE l.res,
     val |-> IF l.res = "ok" THEN <<l.entry>> ELSE <<>>]

\* stat that also asks for the listing of its own path: it calls
\* readDirectory(uri) beside the lookup.
StatCall_prefetch(uri) ==
    /\ CanStart
    /\ LET r == lookupAwait(lruReadDirectory(RdState, uri), lookupLoop(NewLookup(uri)))
       IN /\ SetRd(r.S)
          /\ task' = task \cup
                {[op |-> "stat", uri |-> uri,
                  st |-> IF r.l.st = "done" THEN "done" ELSE "wait",
                  l |-> r.l, gen |-> 0, pend |-> 0, rev |-> rev,
                  res |-> IF r.l.st = "done" THEN LookupResult(r.l) ELSE NoResult]}
    /\ UNCHANGED <<entries, data, rfProm, rfCache, blobLog, fails, envVars>>
\* stat(uri) { return this._lookup(uri, false) }
StatCall(uri) ==
    /\ CanStart
    /\ LET r == lookupAwait(RdState, lookupLoop(NewLookup(uri)))
       IN /\ SetRd(r.S)
          /\ task' = task \cup
                {[op |-> "stat", uri |-> uri,
                  st |-> IF r.l.st = "done" THEN "done" ELSE "wait",
                  l |-> r.l, gen |-> 0, pend |-> 0, rev |-> rev,
                  res |-> IF r.l.st = "done" THEN LookupResult(r.l) ELSE NoResult]}
    /\ UNCHANGED <<entries, data, rfProm, rfCache, blobLog, fails, envVars>>

\* The awaited readDirectory promise of a stat's lookup settles.
StatResume(t) ==
    /\ t.op = "stat" /\ t.st = "wait"
    /\ Settled(rdProm[t.l.key][t.l.gen])
    /\ LET r == lookupAwait(RdState, lookupResume(t.l, rdProm[t.l.key][t.l.gen]))
       IN /\ SetRd(r.S)
          /\ task' = (task \ {t}) \cup
                {[t EXCEPT !.l = r.l,
                    !.st = IF r.l.st = "done" THEN "done" ELSE "wait",
                    !.res = IF r.l.st = "done" THEN LookupResult(r.l) ELSE NoResult]}
    /\ UNCHANGED <<entries, data, rfProm, rfCache, blobLog, fails, envVars>>

\* A caller invokes the memoized readDirectory(uri).
ReadDirectoryCall(uri) ==
    /\ CanStart
    /\ LET S == lruReadDirectory(RdState, uri)
       IN /\ SetRd(S)
          /\ task' = task \cup
                {[op |-> "readDirectory", uri |-> uri, st |-> "wait",
                  l |-> NewLookup(<<>>), gen |-> S.ret, rev |-> rev,
                  pend |-> pendingPromise(rdProm, uri), res |-> NoResult]}
    /\ UNCHANGED <<entries, data, rfProm, rfCache, blobLog, fails, envVars>>

\* The lookup inside readDirectory's body resumes; when it is done the
\* .then callback runs.
ReadDirectoryResume(uri, g) ==
    /\ g \in 1..Len(rdProm[uri])
    /\ rdProm[uri][g].st = "lookup"
    /\ Settled(rdProm[rdProm[uri][g].l.key][rdProm[uri][g].l.gen])
    /\ LET l0 == rdProm[uri][g].l
           r == lookupAwait(RdState, lookupResume(l0, rdProm[l0.key][l0.gen]))
           S1 == [r.S EXCEPT !.prom[uri][g].l = r.l]
       IN SetRd(IF r.l.st = "done" THEN readDirectoryThen(S1, uri, g, r.l) ELSE S1)
    /\ UNCHANGED <<entries, data, rfProm, rfCache, blobLog, task, fails, envVars>>

\* fetch(...).then(response => response.json()).then(data => { ... })
\* with a valid listing: parent.entries is replaced by a Map of new nodes.
TreeFetchOk(uri, g) ==
    /\ g \in 1..Len(rdProm[uri])
    /\ rdProm[uri][g].st = "fetch"
    /\ uri \in RemoteDirs
    /\ LET parent == NodePath(rdProm[uri][g].l.entry)
           m == setEntries(<<>>, uri, RemoteTreeAt(rev, uri))
           fresh == {NodePath(m[j]) : j \in 1..Len(m)}
       IN /\ entries' = [p \in Paths |->
                IF p = parent THEN [null |-> FALSE, map |-> m]
                ELSE IF p \in fresh THEN NullEntries ELSE entries[p]]
          /\ data' = [p \in Paths |-> IF p \in fresh THEN NullData ELSE data[p]]
    /\ rdProm' = [rdProm EXCEPT ![uri][g].st = "ok",
                                ![uri][g].val = listTree(RemoteTreeAt(rev, uri))]
    /\ treeLog' = [treeLog EXCEPT ![uri][Len(treeLog[uri])] = "ok"]
    /\ UNCHANGED <<rdCache, rfProm, rfCache, blobLog, task, fails, envVars>>

\* The request fails (network error): nothing runs but the rejection.
TreeFetchError(uri, g) ==
    /\ g \in 1..Len(rdProm[uri])
    /\ rdProm[uri][g].st = "fetch"
    /\ fails < MaxFail
    /\ fails' = fails + 1
    /\ rdProm' = [rdProm EXCEPT ![uri][g].st = "fail", ![uri][g].err = "FetchError"]
    /\ treeLog' = [treeLog EXCEPT ![uri][Len(treeLog[uri])] = "error"]
    /\ UNCHANGED <<entries, data, rdCache, rfProm, rfCache, blobLog, task, envVars>>

\* The response is JSON without a `tree` list (an API error message):
\* parent.entries = new Map() runs, then data.tree.map throws.
TreeFetchNoTree(uri, g) ==
    /\ g \in 1..Len(rdProm[uri])
    /\ rdProm[uri][g].st = "fetch"
    /\ fails < MaxFail
    /\ fails' = fails + 1
    /\ entries' = [entries EXCEPT ![NodePath(rdProm[uri][g].l.entry)] =
                        [null |-> FALSE, map |-> <<>>]]
    /\ rdProm' = [rdProm EXCEPT ![uri][g].st = "fail", ![uri][g].err = "TypeError"]
    /\ treeLog' = [treeLog EXCEPT ![uri][Len(treeLog[uri])] = "notree"]
    /\ UNCHANGED <<data, rdCache, rfProm, rfCache, blobLog, task, envVars>>

\* The unwrapped function of readFile, up to its first suspension: the
\* promise it returns.
readFileBody(S, uri) ==
    LET r == lookupAwait(S, lookupLoop(NewLookup(uri)))
    IN [S |-> r.S,
        p |-> IF r.l.st = "done" THEN readFileThen(NewPromise(r.l), r.l)
              ELSE NewPromise(r.l)]

\* readFile without the lruCache wrapper: every call runs the body.
ReadFileCall_unwrapped(uri) ==
    /\ CanStart
    /\ LET b == readFileBody(RdState, uri)
           g == Len(rfProm[uri]) + 1
       IN /\ SetRd(b.S)
          /\ rfProm' = [rfProm EXCEPT ![uri] = Append(@, b.p)]
          /\ rfCache' = rfCache
          /\ blobLog' = IF b.p.st = "fetch"
                        THEN [blobLog EXCEPT ![uri] = Append(@, "pending")]
                        ELSE blobLog
          /\ task' = task \cup
                {[op |-> "readFile", uri |-> uri, st |-> "wait",
                  l |-> NewLookup(<<>>), gen |-> g, rev |-> rev,
                  pend |-> pendingPromise(rfProm, uri), res |-> NoResult]}
    /\ UNCHANGED <<entries, data, fails, envVars>>
\* A caller invokes the memoized readFile(uri).
ReadFileCall(uri) ==
    /\ CanStart
    /\ IF lruHit(rfProm, rfCache, uri)
       THEN /\ task' = task \cup
                  {[op |-> "readFile", uri |-> uri, st |-> "wait",
                    l |-> NewLookup(<<>>), gen |-> rfCache[uri], rev |-> rev,
                    pend |-> pendingPromise(rfProm, uri), res |-> NoResult]}
            /\ UNCHANGED <<rdProm, rdCache, treeLog, rfProm, rfCache, blobLog>>
       ELSE LET b == readFileBody(RdState, uri)
                g == Len(rfProm[uri]) + 1
            IN /\ SetRd(b.S)
               /\ rfProm' = [rfProm EXCEPT ![uri] = Append(@, b.p)]
               /\ rfCache' = [rfCache EXCEPT ![uri] = g]
               /\ blobLog' = IF b.p.st = "fetch"
                             THEN [blobLog EXCEPT ![uri] = Append(@, "pending")]
                             ELSE blobLog
               /\ task' = task \cup
                     {[op |-> "readFile", uri |-> uri, st |-> "wait",
                       l |-> NewLookup(<<>>), gen |-> g, rev |-> rev,
                       pend |-> pendingPromise(rfProm, uri), res |-> NoResult]}
    /\ UNCHANGED <<entries, data, fails, envVars>>

\* The lookup inside readFile's body resumes; when it is done the .then
\* callback runs.
ReadFileResume(uri, g) ==
    /\ g \in 1..Len(rfProm[uri])
    /\ rfProm[uri][g].st = "lookup"
    /\ Settled(rdProm[rfProm[uri][g].l.key][rfProm[uri][g].l.gen])
    /\ LET l0 == rfProm[uri][g].l
           r == lookupAwait(RdState, lookupResume(l0, rdProm[l0.key][l0.gen]))
           p0 == [rfProm[uri][g] EXCEPT !.l = r.l]
           p1 == IF r.l.st = "done" THEN readFileThen(p0, r.l) ELSE p0
       IN /\ SetRd(r.S)
          /\ rfProm' = [rfProm EXCEPT ![uri][g] = p1]
          /\ blobLog' = IF p1.st = "fetch"
                        THEN [blobLog EXCEPT ![uri] = Append(@, "pending")]
                        ELSE blobLog
    /\ UNCHANGED <<entries, data, rfCache, task, fails, envVars>>

\* The blob arrives and is returned without being stored in file.data.
BlobFetchOk_notStored(uri, g) ==
    /\ g \in 1..Len(rfProm[uri])
    /\ rfProm[uri][g].st = "fetch"
    /\ rfProm' = [rfProm EXCEPT ![uri][g].st = "ok",
           ![uri][g].val = decodeBlob(RemoteBlob(rfProm[uri][g].l.entry.sha))]
    /\ blobLog' = [blobLog EXCEPT ![uri][Len(blobLog[uri])] = "ok"]
    /\ UNCHANGED <<entries, data, rdProm, rdCache, rfCache, treeLog, task, fails,
                   envVars>>

\* fetch(.../git/blobs/${file.sha}).then(...).then(blob => { file.data = ... })
BlobFetchOk(uri, g) ==
    /\ g \in 1..Len(rfProm[uri])
    /\ rfProm[uri][g].st = "fetch"
    /\ LET file == rfProm[uri][g].l.entry
           bytes == decodeBlob(RemoteBlob(file.sha))
       IN /\ data' = [data EXCEPT ![NodePath(file)] = [null |-> FALSE, bytes |-> bytes]]
          /\ rfProm' = [rfProm EXCEPT ![uri][g].st = "ok", ![uri][g].val = bytes]
    /\ blobLog' = [blobLog EXCEPT ![uri][Len(blobLog[uri])] = "ok"]
    /\ UNCHANGED <<entries, rdProm, rdCache, rfCache, treeLog, task, fails, envVars>>

\* The blob request fails, or its JSON has no base64 `content` and atob
\* throws: file.data is not assigned.
BlobFetchError(uri, g) ==
    /\ g \in 1..Len(rfProm[uri])
    /\ rfProm[uri][g].st = "fetch"
    /\ fails < MaxFail
    /\ fails' = fails + 1
    /\ rfProm' = [rfProm EXCEPT ![uri][g].st = "fail", ![uri][g].err = "FetchError"]
    /\ blobLog' = [blobLog EXCEPT ![uri][Len(blobLog[uri])] = "error"]
    /\ UNCHANGED <<entries, data, rdProm, rdCache, rfCache, treeLog, task, envVars>>

TaskPromise(t) ==
    IF t.op = "readDirectory" THEN rdProm[t.uri][t.gen] ELSE rfProm[t.uri][t.gen]

\* A caller is done when its lookup is done (stat), when the promise it
\* holds is settled (readDirectory, readFile), or at once (write operations).
Done(t) ==
    IF t.op \in {"readDirectory", "readFile"} THEN Settled(TaskPromise(t))
    ELSE t.st = "done"

\* What the caller's promise settled with: [err, val].
Result(t) ==
    IF t.op \in {"readDirectory", "readFile"}
    THEN [err |-> TaskPromise(t).err, val |-> TaskPromise(t).val]
    ELSE t.res

\* createDirectory / writeFile / delete / rename / copy: the five are one
\* kind of caller, "write", whatever the operation and its arguments.
WriteCall(op, uri) ==
    /\ CanStart
    /\ LET M == applyWrite(op, [entries |-> entries, data |-> data], uri)
       IN entries' = M.entries /\ data' = M.data
    /\ task' = task \cup
          {[op |-> "write", uri |-> <<>>, st |-> "done", l |-> NewLookup(<<>>),
            gen |-> 0, pend |-> 0, rev |-> rev, res |-> NoResult]}
    /\ UNCHANGED <<rdProm, rdCache, rfProm, rfCache, treeLog, blobLog, fails, envVars>>

Next ==
    \/ \E uri \in StatPaths : StatCall(uri)
    \/ \E t \in task : StatResume(t)
    \/ \E uri \in ReadDirectoryPaths : ReadDirectoryCall(uri)
    \/ \E uri \in Paths, g \in 1..(MaxFail + 1) : ReadDirectoryResume(uri, g)
    \/ \E uri \in Paths, g \in 1..(MaxFail + 1) : TreeFetchOk(uri, g)
    \/ \E uri \in Paths, g \in 1..(MaxFail + 1) : TreeFetchError(uri, g)
    \/ \E uri \in Paths, g \in 1..(MaxFail + 1) : TreeFetchNoTree(uri, g)
    \/ \E uri \in ReadFilePaths : ReadFileCall(uri)
    \/ \E uri \in Paths, g \in 1..(MaxFail + 1) : ReadFileResume(uri, g)
    \/ \E uri \in Paths, g \in 1..(MaxFail + 1) : BlobFetchOk(uri, g)
    \/ \E uri \in Paths, g \in 1..(MaxFail + 1) : BlobFetchError(uri, g)
    \/ \E op \in WriteOps, uri \in Paths : WriteCall(op, uri)

Spec == Init /\ [][Next]_vars

\* ------------------------------------------------- the blob codec by itself
InitCodec == InitFS /\ codecIn \in ByteSeqs

\* What readFile stores for a blob whose raw bytes are codecIn.
CodecDecode ==
    /\ ~codecOut.done
    /\ codecOut' = [done |-> TRUE, bytes |-> decodeBlob(btoa(codecIn))]
    /\ UNCHANGED <<fsVars, codecIn, rev>>

NextCodec == CodecDecode

SpecCodec == InitCodec /\ [][NextCodec]_vars

\* ------------------------------------- the provider over a moving branch
\* The branch moves on: from now on the API serves the second revision.
RemoteChange ==
    /\ rev = 1
    /\ rev' = 2
    /\ UNCHANGED <<fsVars, codecIn, codecOut>>

\* The uris the callers pass while the branch moves.
StatPathsChange == {<<"a", "g">>, <<"m">>}
ReadDirectoryPathsChange == {<<>>, <<"a">>}

NextChange ==
    \/ RemoteChange
    \/ \E uri \in StatPathsChange : StatCall(uri)
    \/ \E t \in task : StatResume(t)
    \/ \E uri \in ReadDirectoryPathsChange : ReadDirectoryCall(uri)
    \/ \E uri \in Paths, g \in 1..(MaxFail + 1) : ReadDirectoryResume(uri, g)
    \/ \E uri \in Paths, g \in 1..(MaxFail + 1) : TreeFetchOk(uri, g)
    \/ \E uri \in Paths, g \in 1..(MaxFail + 1) : TreeFetchError(uri, g)
    \/ \E uri \in Paths, g \in 1..(MaxFail + 1) : TreeFetchNoTree(uri, g)

SpecChange == Init /\ [][NextChange]_vars

\* --------------------------------------------- the provider under fairness
\* A step of the event loop: a continuation whose awaited promise has
\* settled runs, or an issued fetch gets its response.
Progress ==
    \/ \E t \in task : StatResume(t)
    \/ \E uri \in Paths, g \in 1..(MaxFail + 1) : ReadDirectoryResume(uri, g)
    \/ \E uri \in Paths, g \in 1..(MaxFail + 1) : TreeFetchOk(uri, g)
    \/ \E uri \in Paths, g \in 1..(MaxFail + 1) : TreeFetchError(uri, g)
    \/ \E uri \in Paths, g \in 1..(MaxFail + 1) : TreeFetchNoTree(uri, g)
    \/ \E uri \in Paths, g \in 1..(MaxFail + 1) : ReadFileResume(uri, g)
    \/ \E uri \in Paths, g \in 1..(MaxFail + 1) : BlobFetchOk(uri, g)
    \/ \E uri \in Paths, g \in 1..(MaxFail + 1) : BlobFetchError(uri, g)

\* The uris the callers pass: a path two levels down, the two directories,
\* a file at each level and a missing name.
StatPathsLive == {<<"a", "g">>, <<"m">>}
ReadDirectoryPathsLive == {<<>>, <<"a">>}
ReadFilePathsLive == {<<"a", "g">>, <<"f">>}

NextLive ==
    \/ \E uri \in StatPathsLive : StatCall(uri)
    \/ \E uri \in ReadDirectoryPathsLive : ReadDirectoryCall(uri)
    \/ \E uri \in ReadFilePathsLive : ReadFileCall(uri)
    \/ Progress

\* Every issued fetch settles and every continuation that can run does.
SpecLive == Init /\ [][NextLive]_vars /\ WF_vars(Progress)
\* ================================================================ claims
FetchErrors == {"FetchError", "TypeError"}

Prefix(p, n) == SubSeq(p, 1, n)

RemoteNames(d) == {RemoteTree(d)[k].path : k \in 1..Len(RemoteTree(d))}

\* The run of _lookup a caller's result comes from.
TaskLookup(t) ==
    IF t.op = "stat" THEN t.l
    ELSE IF t.op = "readDirectory" THEN rdProm[t.uri][t.gen].l
    ELSE rfProm[t.uri][t.gen].l

ReadOps == {"stat", "readDirectory", "readFile"}

AllButLastAre(log, v) == \A i \in 1..(Len(log) - 1) : log[i] = v

InFlight(prom) == {g \in 1..Len(prom) : prom[g].st = "fetch"}

C2_BlobFetchedOnce == \A p \in Paths : Len(blobLog[p]) <= 1

\* C2 (amended): for every file path p at most one blob fetch is in flight
\* at a time and a further one is issued only after every earlier one
\* failed; every readFile(p) that succeeds returns the bytes stored in the
\* node's data, so all of them return the same bytes.
C2_BlobFetchOnlyAfterFailure ==
    /\ \A p \in Paths :
        /\ AllButLastAre(blobLog[p], "error")
        /\ Cardinality(InFlight(rfProm[p])) <= 1
        /\ Len(blobLog[p]) = Cardinality({g \in 1..Len(rfProm[p]) : rfProm[p][g].src = "fetch"})
    /\ \A t \in task :
        (t.op = "readFile" /\ Done(t) /\ Result(t).err = "") =>
            /\ ~data[t.uri].null
            /\ Result(t).val = data[t.uri].bytes

\* Two callers of readFile("/f"), the second arriving while the first is
\* pending, both answered with the bytes of one successful blob fetch.
C2_Witness ==
    \E t1, t2 \in task :
        /\ t1.op = "readFile" /\ t2.op = "readFile"
        /\ t1.uri = <<"f">> /\ t2.uri = <<"f">>
        /\ t1.pend = 0 /\ t2.pend # 0
        /\ Done(t1) /\ Done(t2)
        /\ Result(t1).err = "" /\ Result(t1).val = <<104, 105>>
        /\ blobLog[<<"f">>] = <<"ok">>

\* The lookup stopped at a file while parts of the path were left.
StoppedAtFile(l) ==
    l.st = "done" /\ l.entry.type = "File" /\ l.i < Len(l.path)

\* C3: resolving a path that has further segments after a segment which
\* resolves to a file fails with NotADirectory.
C3_ThroughFileIsNotADirectory ==
    \A t \in task :
        (t.op \in ReadOps /\ Done(t) /\ StoppedAtFile(TaskLookup(t))) =>
            Result(t).err = "FileNotADirectory"

\* C4: readFile on a path that resolves to a directory fails with
\* IsADirectory and issues no blob fetch; while readFile calls on
\* directories are the only calls made, nothing of the tree model is
\* populated but listings of proper ancestors of those directories.
C4_ReadFileOfDirectory ==
    /\ \A p \in Paths : \A g \in 1..Len(rfProm[p]) :
        LET l == rfProm[p][g].l
        IN (l.st = "done" /\ l.res = "ok" /\ l.entry.type = "Directory") =>
              /\ rfProm[p][g].st = "fail"
              /\ rfProm[p][g].err = "FileIsADirectory"
              /\ rfProm[p][g].src = "none"
    /\ \A p \in RemoteDirs : blobLog[p] = <<>>
    /\ (\A t \in task : t.op = "readFile" /\ t.uri \in RemoteDirs) =>
          /\ \A q \in Paths : data[q].null
          /\ \A q \in Paths :
                ~entries[q].null =>
                    \E t \in task : Len(q) < Len(t.uri) /\ q = Prefix(t.uri, Len(q))

\* readFile("/a") has failed with IsADirectory after the root listing was
\* fetched for it.
C4_Witness ==
    \E t \in task :
        /\ t.op = "readFile" /\ t.uri = <<"a">> /\ Done(t)
        /\ Result(t).err = "FileIsADirectory"
        /\ ~entries[<<>>].null /\ entries[<<"a">>].null
        /\ Cardinality(task) = 1

\* The first segment of p that its parent directory's remote listing lacks.
AbsentSegment(p) ==
    \E i \in 1..Len(p) :
        /\ Prefix(p, i - 1) \in RemoteDirs
        /\ p[i] \notin RemoteNames(Prefix(p, i - 1))

\* Every node of the model is the node readDirectory builds for an entry of
\* its parent's remote listing.
NodesMirrorRemote ==
    \A d \in Paths :
        ~entries[d].null =>
            /\ d \in RemoteDirs
            /\ \A j \in 1..Len(entries[d].map) :
                \E k \in 1..Len(RemoteTree(d)) :
                    entries[d].map[j] = newEntry(d, RemoteTree(d)[k])

\* C5: stat, readDirectory or readFile on a path with a segment absent from
\* its parent's fetched listing fails with NotFound (or with the error of a
\* fetch that failed on the way) and creates no node: every node of the
\* model corresponds to an entry of its parent's remote listing.
C5_MissIsNotFound ==
    /\ NodesMirrorRemote
    /\ \A t \in task :
        (t.op \in ReadOps /\ Done(t) /\ AbsentSegment(t.uri)) =>
            /\ Result(t).err \in {"FileNotFound"} \cup FetchErrors
            /\ Result(t).err \in FetchErrors => fails > 0
            /\ TaskLookup(t).st = "done"
            /\ TaskLookup(t).res = Result(t).err

\* stat("/m") has failed with NotFound against the fetched root listing.
C5_Witness ==
    \E t \in task :
        /\ t.op = "stat" /\ t.uri = <<"m">> /\ Done(t)
        /\ Result(t).err = "FileNotFound"
        /\ treeLog[<<>>] = <<"ok">>
        /\ Len(entries[<<>>].map) = 2

\* C6: after a tree or blob fetch for a key fails the cache entry is settled
\* as failed, not left pending, and the next request for the key issues a
\* fresh fetch: it is not answered without one.
C6_FailedKeyIsRefetched ==
    /\ \A d \in Paths : \A g \in 1..Len(rdProm[d]) :
        (rdProm[d][g].src = "fetch" /\ rdProm[d][g].st = "fail") =>
            /\ ~(rdCache[d] = g /\ lruHit(rdProm, rdCache, d))
            /\ g < Len(rdProm[d]) => rdProm[d][g + 1].src # "model"
    /\ \A p \in Paths : \A g \in 1..Len(rfProm[p]) :
        (rfProm[p][g].src = "fetch" /\ rfProm[p][g].st = "fail") =>
            /\ ~(rfCache[p] = g /\ lruHit(rfProm, rfCache, p))
            /\ g < Len(rfProm[p]) => rfProm[p][g + 1].src # "model"

Outcome(p) == [err |-> p.err, val |-> p.val]

\* C7: every caller that requests a directory listing or a file's content
\* while a request for the same key is pending gets that pending request's
\* promise, and so settles when it settles and with its outcome; the same
\* holds for the readDirectory requests that lookups make.
C7_SharedOutcome ==
    /\ \A t \in task :
        (t.op \in {"readDirectory", "readFile"} /\ t.pend # 0) =>
            LET P == IF t.op = "readDirectory" THEN rdProm[t.uri][t.pend]
                     ELSE rfProm[t.uri][t.pend]
            IN /\ Done(t) <=> Settled(P)
               /\ Done(t) => Result(t) = Outcome(P)
    /\ \A t \in task : (t.op = "stat" /\ t.l.pend # 0) => t.l.gen = t.l.pend
    /\ \A p \in Paths :
        /\ \A g \in 1..Len(rdProm[p]) :
              rdProm[p][g].l.pend # 0 => rdProm[p][g].l.gen = rdProm[p][g].l.pend
        /\ \A g \in 1..Len(rfProm[p]) :
              rfProm[p][g].l.pend # 0 => rfProm[p][g].l.gen = rfProm[p][g].l.pend

\* Two callers of readDirectory("/"), the second arriving while the first is
\* pending, have both been rejected with the one fetch's error.
C7_Witness ==
    \E t1, t2 \in task :
        /\ t1.op = "readDirectory" /\ t2.op = "readDirectory"
        /\ t1.uri = <<>> /\ t2.uri = <<>>
        /\ t1.pend = 0 /\ t2.pend # 0
        /\ Done(t1) /\ Done(t2)
        /\ Result(t1).err = "FetchError" /\ Result(t2).err = "FetchError"
        /\ treeLog[<<>>] = <<"error">>

\* A step in which a write operation is called.
WriteStep == \E t \in task' : t \notin task /\ t.op = "write"

\* C8: createDirectory, writeFile, delete, rename and copy resolve
\* successfully for any input in any state, leave every node of the tree
\* model unchanged and issue no remote fetch.
C8_WritesAreNoOps ==
    [][WriteStep =>
        /\ \A t \in task' : (t \notin task /\ t.op = "write") =>
              t.st = "done" /\ t.res.err = ""
        /\ UNCHANGED <<entries, data, rdProm, rdCache, rfProm, rfCache,
                       treeLog, blobLog>>]_vars

\* A write operation has resolved and the root listing and a file's content
\* are in the model.
C8_Witness ==
    /\ \E t \in task : t.op = "write" /\ Done(t) /\ t.res.err = ""
    /\ Len(entries[<<>>].map) = 2
    /\ ~data[<<"f">>].null

\* C9: readFile returns exactly the blob's raw bytes: decoding the transport
\* encoding inverts the store's encoding for every byte sequence.
C9_DecodeInvertsEncode == codecOut.done => codecOut.bytes = codecIn

\* The list readDirectory(d) is to return: one (name, kind) pair per entry
\* of d's remote listing, in listing order.
RemoteListing(d) ==
    [k \in 1..Len(RemoteTree(d)) |->
        <<RemoteTree(d)[k].path,
          IF RemoteTree(d)[k].type = "tree" THEN "Directory" ELSE "File">>]

\* C10: readDirectory(d) returns exactly one (name, kind) pair per entry of
\* d's remote listing, in listing order, whether it is served by the fetch,
\* from the populated model or from the request cache.
C10_ListingMatchesRemote ==
    \A t \in task :
        (t.op = "readDirectory" /\ Done(t) /\ Result(t).err = "") =>
            Result(t).val = RemoteListing(t.uri)

\* Every run of _lookup: those of stat callers and those inside the
\* readDirectory and readFile promises.
AllLookups ==
    {t.l : t \in {u \in task : u.op = "stat"}}
    \cup UNION {{rdProm[d][g].l : g \in 1..Len(rdProm[d])} : d \in Paths}
    \cup UNION {{rfProm[p][g].l : g \in 1..Len(rfProm[p])} : p \in Paths}

\* Node n carries the content hash the remote listing of p's parent gives p.
ListedAs(p, n) ==
    \E k \in 1..Len(RemoteTree(Prefix(p, Len(p) - 1))) :
        /\ RemoteTree(Prefix(p, Len(p) - 1))[k].path = p[Len(p)]
        /\ RemoteTree(Prefix(p, Len(p) - 1))[k].sha = n.sha

\* Node n is the node the tree model holds at path p.
IsModelNode(p, n) ==
    IF p = <<>> THEN n = root
    ELSE LET m == entries[Prefix(p, Len(p) - 1)]
         IN /\ ~m.null
            /\ MapIndex(m.map, p[Len(p)]) # 0
            /\ m.map[MapIndex(m.map, p[Len(p)])] = n

C12_EntriesWrittenOnce ==
    [][\A d \in Paths :
          ~entries[d].null => entries'[d] = entries[d] /\ treeLog'[d] = treeLog[d]]_vars

\* The root listing was fetched at the first revision; after the remote
\* changed ("m" was added) stat("/m") was called and answered NotFound from
\* the unchanged mapping, without a further fetch.
C12_Witness ==
    /\ rev = 2
    /\ treeLog[<<>>] = <<"ok">>
    /\ entries[<<>>].map = setEntries(<<>>, <<>>, RemoteTree(<<>>))
    /\ \E t \in task :
        /\ t.op = "stat" /\ t.uri = <<"m">> /\ t.rev = 2
        /\ Done(t) /\ Result(t).err = "FileNotFound"

\* The children mapping of d holds one node for every entry of d's remote
\* listing, under the entry's name.
HoldsWholeListing(d) ==
    /\ Len(entries[d].map) = Len(RemoteTree(d))
    /\ \A k \in 1..Len(RemoteTree(d)) :
        entries[d].map[k].name = RemoteTree(d)[k].path

\* C13: at every point where another task can run, the children mapping of
\* each directory is either null or holds one node for every entry of the
\* directory's remote listing: no mapping with only some of the entries is
\* ever observable.
C13_EntriesNullOrComplete ==
    \A d \in Paths : entries[d].null \/ HoldsWholeListing(d)

\* No tree fetch for d has been answered with a listing.
NoListingYet(d) == \A i \in 1..Len(treeLog[d]) : treeLog[d][i] # "ok"

\* C14: when the tree fetch for d fails (network error, or a response
\* without a valid entry list) the readDirectory that issued it fails with
\* the fetch error and d's children stay null, so that no later operation
\* finds d as a fetched directory with zero children.
C14_FailedFetchLeavesNull ==
    /\ \A d \in Paths : NoListingYet(d) => entries[d].null
    /\ \A d \in Paths : \A g \in 1..Len(rdProm[d]) :
        (rdProm[d][g].src = "fetch" /\ rdProm[d][g].st = "fail") =>
            rdProm[d][g].err \in FetchErrors

\* The number of times the blob callback has assigned the data of the file
\* at p, in the state after the step.
DataWrites(p) ==
    Cardinality({g \in 1..Len(rfProm'[p]) :
                    rfProm'[p][g].src = "fetch" /\ rfProm'[p][g].st = "ok"})

\* C15: the content of a file is written once, from absent to the fetched
\* bytes, and never overwritten; no operation changes the name, uri or
\* content hash of a node after its construction.
C15_DataWrittenOnce ==
    [][/\ \A p \in Paths : ~data[p].null => data'[p] = data[p]
       /\ \A p \in Paths : DataWrites(p) <= 1
       /\ \A p \in Paths : (data[p].null /\ ~data'[p].null) => DataWrites(p) = 1
       /\ \A d \in Paths : ~entries[d].null => entries'[d].map = entries[d].map]_vars

\* The content of "/f" is in the model and two readFile("/f") calls, the
\* second one made after the first, have both been answered.
C15_Witness ==
    /\ data[<<"f">>] = [null |-> FALSE, bytes |-> <<104, 105>>]
    /\ blobLog[<<"f">>] = <<"ok">>
    /\ \E t1, t2 \in task :
        /\ t1.op = "readFile" /\ t2.op = "readFile"
        /\ t1.uri = <<"f">> /\ t2.uri = <<"f">>
        /\ t1 # t2 /\ Done(t1) /\ Done(t2)
        /\ Result(t2).val = <<104, 105>>

\* Lookup l, made for path p, is suspended on a readDirectory promise that
\* exists and belongs to a strict ancestor of p.
WaitsOnStrictAncestor(l, p) ==
    /\ l.st = "wait"
    /\ Len(l.key) < Len(p)
    /\ l.key = Prefix(p, Len(l.key))
    /\ l.gen \in 1..Len(rdProm[l.key])

\* Every unsettled lookup is suspended on a strict ancestor's readDirectory.
NoWaitCycle ==
    /\ \A t \in task :
        (t.op = "stat" /\ ~Done(t)) => WaitsOnStrictAncestor(t.l, t.uri)
    /\ \A d \in Paths : \A g \in 1..Len(rdProm[d]) :
        rdProm[d][g].st = "lookup" => WaitsOnStrictAncestor(rdProm[d][g].l, d)
    /\ \A p \in Paths : \A g \in 1..Len(rfProm[p]) :
        rfProm[p][g].st = "lookup" => WaitsOnStrictAncestor(rfProm[p][g].l, p)

AllSettled == \A t \in task : Done(t)

\* C16: if every issued remote fetch eventually settles, every stat,
\* readDirectory and readFile call eventually settles, under any
\* interleaving; a readDirectory(d) in flight only waits on readDirectory
\* of strict ancestors of d, never on itself or in a cycle.
C16_EveryCallSettles == []NoWaitCycle /\ <>[]AllSettled

\* stat("/a/g") waited for readDirectory("/") and then readDirectory("/a"),
\* readFile("/a/g") joined, and both have settled.
C16_Witness ==
    /\ treeLog[<<>>] = <<"ok">> /\ treeLog[<<"a">>] = <<"ok">>
    /\ \E t1, t2 \in task :
        /\ t1.op = "stat" /\ t1.uri = <<"a", "g">> /\ Done(t1) /\ Result(t1).err = ""
        /\ t2.op = "readFile" /\ t2.uri = <<"a", "g">> /\ Done(t2) /\ Result(t2).err = ""

\* d is a proper ancestor of p.
ProperAncestor(d, p) == Len(d) < Len(p) /\ d = Prefix(p, Len(d))

\* Caller t has to read the listing of d: d is a proper ancestor of the
\* path it resolves, or the directory a readDirectory lists.
NeedsListing(t, d) ==
    \/ t.op \in ReadOps /\ ProperAncestor(d, t.uri)
    \/ t.op = "readDirectory" /\ t.uri = d

\* The model holds a file node at p.
IsFileAt(p) ==
    /\ p # <<>>
    /\ LET m == entries[Prefix(p, Len(p) - 1)].map
       IN /\ MapIndex(m, p[Len(p)]) # 0
          /\ m[MapIndex(m, p[Len(p)])].type = "File"

\* C17: a tree fetch is issued only for a directory whose children are
\* unfetched and only after its parent's listing is there (root to leaf);
\* stat(p) and readFile(p) cause tree fetches for proper ancestors of p
\* only, never for p itself; a blob fetch is issued only by readFile on a
\* file whose content is absent, never by stat or readDirectory.
C17_FetchesOnlyWhereNeeded ==
    /\ \A d \in Paths : \A g \in 1..Len(rdProm[d]) :
        rdProm[d][g].st = "fetch" => entries[d].null
    /\ \A d \in Paths :
        treeLog[d] # <<>> =>
            /\ d # <<>> => ~entries[Prefix(d, Len(d) - 1)].null
            /\ \E t \in task : NeedsListing(t, d)
    /\ \A p \in Paths :
        blobLog[p] # <<>> =>
            /\ IsFileAt(p)
            /\ \E t \in task : t.op = "readFile" /\ t.uri = p
    /\ \A p \in Paths : \A g \in 1..Len(rfProm[p]) :
        rfProm[p][g].st = "fetch" => data[p].null

\* stat("/a/g") has resolved after the fetches of "/" and "/a" and no
\* other; readFile("/f") has fetched the one blob.
C17_Witness ==
    /\ \E t \in task :
        t.op = "stat" /\ t.uri = <<"a", "g">> /\ Done(t) /\ Result(t).err = ""
    /\ \E t \in task :
        t.op = "readFile" /\ t.uri = <<"f">> /\ Done(t) /\ Result(t).err = ""
    /\ treeLog[<<>>] = <<"ok">> /\ treeLog[<<"a">>] = <<"ok">>
    /\ \A d \in Paths \ {<<>>, <<"a">>} : treeLog[d] = <<>>
    /\ blobLog[<<"f">>] = <<"ok">>
    /\ \A p \in Paths \ {<<"f">>} : blobLog[p] = <<>>

====
